---- MODULE Spec2Model ----
(***************************************************************************)
(* A model of file_manager/dataset/tiled_dataset.py: the TiledDataset      *)
(* class (serialisation, URI derivation and parsing, browse_data and       *)
(* read_data with their worker pools) against a remote array store.        *)
(*                                                                         *)
(* Python strings that the code builds, splits or parses are sequences of  *)
(* one-character strings, so that formatting and parsing are computed and  *)
(* not assumed.                                                            *)
(***************************************************************************)
EXTENDS Integers, Sequences, FiniteSets, TLC

VARIABLES
    pc,                   \* position of the call in progress
    dataset,              \* the TiledDataset object: uri, cumulative_data_count
    STATIC_TILED_CLIENT,  \* module-level client override (None when unset)
    args,                 \* arguments of the call in progress
    tiled_client,         \* the client the call resolved
    selected_sub_uris,    \* browse_data: the list being expanded / expanded
    tmp_sub_uris,         \* browse_data: the expansion built so far
    tiled_uris,           \* URIs derived so far
    block_data,           \* read_data: the sliced block
    tasks,                \* worker-pool tasks of the call, by submission index
    cursor,               \* position of the calling thread in its current loop
    result,               \* what the call returned or raised
    hist,                 \* counters of remote operations performed by the call
    dataset_dict,         \* to_dict's output
    uri_index             \* get_uri_index's output

vars == << pc, dataset, STATIC_TILED_CLIENT, args, tiled_client, selected_sub_uris,
           tmp_sub_uris,
           tiled_uris, block_data, tasks, cursor, result, hist, dataset_dict,
           uri_index >>

(***************************************************************************)
(* Bounds of the model.                                                    *)
(***************************************************************************)
MaxCount == 5        \* cumulative_data_count of a constructed dataset: 0..MaxCount
MaxUriIndex == 11    \* slice indexes formatted into URIs: 0..MaxUriIndex
MaxSelected == 2     \* browse_data: at most this many selected sub URIs

None == [kind |-> "None"]

(***************************************************************************)
(* Python string primitives.                                               *)
(***************************************************************************)
Digits == << "0", "1", "2", "3", "4", "5", "6", "7", "8", "9" >>

DigitValue(c) == (CHOOSE d \in 1..10 : Digits[d] = c) - 1

IsDigit(c) == \E d \in 1..10 : Digits[d] = c

RECURSIVE NatToStr(_)
\* str(n) for n >= 0: decimal digits, most significant first, no padding
NatToStr(n) ==
    IF n < 10 THEN << Digits[n + 1] >>
    ELSE NatToStr(n \div 10) \o << Digits[(n % 10) + 1] >>

\* f"{index}" for an int
IntToStr(i) == IF i < 0 THEN << "-" >> \o NatToStr(-i) ELSE NatToStr(i)

RECURSIVE DigitsToNat(_)
DigitsToNat(s) ==
    IF s = << >> THEN 0
    ELSE 10 * DigitsToNat(SubSeq(s, 1, Len(s) - 1)) + DigitValue(s[Len(s)])

AllDigits(s) == Len(s) > 0 /\ \A k \in 1..Len(s) : IsDigit(s[k])

PyStr(s) == [kind |-> "str", s |-> s]

PyInt(n) == [kind |-> "int", n |-> n]

Raise(error) == [kind |-> "raise", error |-> error]

\* int(s): an optional sign followed by decimal digits; anything else raises
ParseInt(s) ==
    IF AllDigits(s) THEN PyInt(DigitsToNat(s))
    ELSE IF Len(s) > 1 /\ s[1] = "-" /\ AllDigits(Tail(s)) THEN PyInt(-DigitsToNat(Tail(s)))
    ELSE IF Len(s) > 1 /\ s[1] = "+" /\ AllDigits(Tail(s)) THEN PyInt(DigitsToNat(Tail(s)))
    ELSE Raise("ValueError")

\* sep occurs in s at position p (1-based)
OccursAt(s, sep, p) == p + Len(sep) - 1 <= Len(s) /\ SubSeq(s, p, p + Len(sep) - 1) = sep

\* `sep in s`
Contains(s, sep) == \E p \in 1..Len(s) : OccursAt(s, sep, p)

RECURSIVE Split(_, _)
\* s.split(sep): the pieces between the non-overlapping occurrences of sep,
\* found scanning from the left
Split(s, sep) ==
    IF ~Contains(s, sep) THEN << s >>
    ELSE LET p == CHOOSE q \in 1..Len(s) :
                      OccursAt(s, sep, q) /\ \A r \in 1..(q - 1) : ~OccursAt(s, sep, r)
         IN  << SubSeq(s, 1, p - 1) >> \o Split(SubSeq(s, p + Len(sep), Len(s)), sep)

SliceEq == << "s", "l", "i", "c", "e", "=" >>

SliceQuery == << "?" >> \o SliceEq

(***************************************************************************)
(* Dataset serialisation.                                                  *)
(***************************************************************************)
\* Dataset.__init__(uri, cumulative_data_count): keeps both as given
DatasetInit(uri, cumulative_data_count) ==
    [uri |-> uri, cumulative_data_count |-> cumulative_data_count]

\* TiledDataset.__init__: delegates to Dataset.__init__
TiledDatasetInit(uri, cumulative_data_count) == DatasetInit(uri, cumulative_data_count)

to_dict_zero_count(self) == [uri |-> self.uri, cumulative_data_count |-> 0]

to_dict(self) ==
    [uri |-> self.uri, cumulative_data_count |-> self.cumulative_data_count]

from_dict(dataset_dict_) ==
    TiledDatasetInit(dataset_dict_.uri, dataset_dict_.cumulative_data_count)

(***************************************************************************)
(* URI derivation and parsing.                                             *)
(***************************************************************************)
\* f"{base_tiled_uri}?slice={index}"
SliceUri(base_tiled_uri, index) == base_tiled_uri \o SliceQuery \o IntToStr(index)

get_uri_index_first_piece(uri) ==
    IF ~Contains(uri, SliceEq) THEN PyInt(0)
    ELSE ParseInt(Split(uri, SliceEq)[2])

\* lines 190-192
get_uri_index(uri) ==
    IF ~Contains(uri, SliceEq) THEN PyInt(0)
    ELSE LET pieces == Split(uri, SliceEq) IN ParseInt(pieces[Len(pieces)])

(***************************************************************************)
(* The remote array store: a tree of branch and leaf nodes, looked up by   *)
(* "/"-separated path.  Leaves carry a shape; every node carries a uri.    *)
(***************************************************************************)
Slash == << "/" >>

Missing == [kind |-> "Missing"]

Leaf(shape) == [kind |-> "ArrayClient", shape |-> shape]

Branch(children) == [kind |-> "Container", children |-> children]

\* the path segments of a key: empty pieces (leading, trailing or doubled
\* slashes) name nothing
Segments(path) == SelectSeq(Split(path, Slash), LAMBDA piece : piece # << >>)

RECURSIVE Join(_, _)
\* sep.join(pieces)
Join(pieces, sep) ==
    IF pieces = << >> THEN << >>
    ELSE IF Len(pieces) = 1 THEN pieces[1]
    ELSE pieces[1] \o sep \o Join(Tail(pieces), sep)

Tree(segs) ==
    CASE segs = << >> -> Branch(<< <<"A">>, <<"B">>, <<"C">> >>)
      [] segs = << <<"A">> >> -> Branch(<< <<"d">>, <<"e">> >>)
      [] segs = << <<"A">>, <<"d">> >> -> Leaf(<< 3, 2, 2 >>)
      [] segs = << <<"A">>, <<"e">> >> -> Leaf(<< 2, 2 >>)
      [] segs = << <<"B">> >> -> Branch(<< <<"s">> >>)
      [] segs = << <<"B">>, <<"s">> >> -> Branch(<< >>)
      [] segs = << <<"C">> >> ->
             Branch(<< <<"d">>, <<"e">>, <<"g">>, <<"h">>, <<"k">>, <<"v">>, <<"z">> >>)
      [] segs = << <<"C">>, <<"d">> >> -> Leaf(<< 1, 2, 2 >>)
      [] segs = << <<"C">>, <<"e">> >> -> Leaf(<< 2, 1, 2, 2 >>)
      [] segs = << <<"C">>, <<"g">> >> -> Leaf(<< 2, 1, 20 >>)
      [] segs = << <<"C">>, <<"h">> >> -> Leaf(<< 2, 3, 20, 12 >>)
      [] segs = << <<"C">>, <<"k">> >> -> Leaf(<< 2, 2, 2, 2, 2 >>)
      [] segs = << <<"C">>, <<"v">> >> -> Leaf(<< 4 >>)
      [] segs = << <<"C">>, <<"z">> >> -> Leaf(<< >>)
      [] OTHER -> Missing

ServerUri == << "t", ":", "/" >>

\* node.uri: the address of the node on the server
NodeUri(path) == ServerUri \o Join(Segments(path), Slash)

\* tiled_client[path] when the store answers: the node, or Missing (KeyError)
Resolve(path) == Tree(Segments(path))

\* The outcomes of one lookup tiled_client[path]: the node when the path
\* exists and the store answers, a failure otherwise (a path that does not
\* exist always fails; one that exists may still fail in transit).
LookupOutcomes(path) ==
    IF Resolve(path) = Missing THEN { Missing } ELSE { Resolve(path), Missing }

(***************************************************************************)
(* The worker pool's tasks and the call's counters.                        *)
(***************************************************************************)
Pending(arg) == [state |-> "pending", arg |-> arg, out |-> None, seq |-> 0]

NoHist == [lookups |-> 0, size_lookups |-> 0, array_reads |-> 0, submitted |-> 0,
           clients_built |-> 0, failed |-> 0, probes_failed |-> 0]

\* how many of tasks_ have completed
Completed(tasks_) == Cardinality({ i \in 1..Len(tasks_) : tasks_[i].state # "pending" })

RECURSIVE Sum(_)
Sum(seq) == IF seq = << >> THEN 0 ELSE seq[1] + Sum(Tail(seq))

(***************************************************************************)
(* get_tiled_client                                                        *)
(***************************************************************************)
RootUri == << "t", ":" >>

\* a client made at import from STATIC_TILED_URI; children: how many nodes
\* its container holds, which is its len()
StaticClient ==
    [kind |-> "client", uri |-> << "s", ":" >>, api_key |-> None, static |-> TRUE,
     children |-> Len(Tree(<< >>).children)]

\* the same for a server whose catalogue holds no node yet
EmptyStaticClient ==
    [kind |-> "client", uri |-> << "s", ":" >>, api_key |-> None, static |-> TRUE,
     children |-> 0]

\* tiled.client.from_uri
from_uri(tiled_uri, api_key) ==
    [kind |-> "client", uri |-> tiled_uri, api_key |-> api_key, static |-> FALSE,
     children |-> Len(Tree(<< >>).children)]

\* bool(x) of None or of a container client: a container is a Mapping, so it
\* is true exactly when its len() is not 0
Truthy(x) == x # None /\ x.children # 0

\* lines 68-72
get_tiled_client(tiled_uri, api_key, static_tiled_client) ==
    IF Truthy(static_tiled_client) THEN static_tiled_client
    ELSE from_uri(tiled_uri, api_key)

(***************************************************************************)
(* browse_data helpers                                                     *)
(***************************************************************************)
\* f"/{node}/{sub_uri}"
ProbePath(sub_uri, node) == Slash \o node \o Slash \o sub_uri

_check_node_raises(outcome, sub_uri, node) ==
    IF outcome = Missing THEN Raise("KeyError") ELSE PyStr(ProbePath(sub_uri, node))

\* outcome: what tiled_client[f"/{node}/{sub_uri}"] gave
_check_node(outcome, sub_uri, node) ==
    IF outcome = Missing THEN None ELSE PyStr(ProbePath(sub_uri, node))

_get_node_size_always_leading(tiled_array) ==
    IF tiled_array = Missing THEN Raise("KeyError")
    ELSE IF tiled_array.kind # "ArrayClient" THEN Raise("AttributeError")
    ELSE IF Len(tiled_array.shape) = 0 THEN Raise("IndexError")
    ELSE PyInt(tiled_array.shape[1])

_get_node_size_swallows(tiled_array) ==
    IF tiled_array = Missing THEN PyInt(0)
    ELSE IF tiled_array.kind # "ArrayClient" THEN PyInt(0)
    ELSE IF Len(tiled_array.shape) = 2 THEN PyInt(1)
    ELSE IF Len(tiled_array.shape) = 0 THEN PyInt(0)
    ELSE PyInt(tiled_array.shape[1])

\* tiled_array: what tiled_client[node] gave
_get_node_size(tiled_array) ==
    IF tiled_array = Missing THEN Raise("KeyError")
    ELSE IF tiled_array.kind # "ArrayClient" THEN Raise("AttributeError")
    ELSE IF Len(tiled_array.shape) = 2 THEN PyInt(1)
    ELSE IF Len(tiled_array.shape) = 0 THEN Raise("IndexError")
    ELSE PyInt(tiled_array.shape[1])

\* the task completed seq-th among tasks_
CompletedAt(tasks_, seq) == CHOOSE i \in 1..Len(tasks_) : tasks_[i].seq = seq

SizesAsCompleted(tasks_) == [i \in 1..Len(tasks_) |-> tasks_[CompletedAt(tasks_, i)].out]

\* list(executor.map(get_node_size_with_client, nodes)) once every task is
\* done: the results by submission index
SizesInOrder(tasks_) == [i \in 1..Len(tasks_) |-> tasks_[i].out]

\* sums that leave out each node's own size
CumulativeSizesBefore(sizes) == [i \in 1..Len(sizes) |-> Sum(SubSeq(sizes, 1, i - 1))]

\* [sum(sizes[: i + 1]) for i in range(len(sizes))]
CumulativeSizes(sizes) == [i \in 1..Len(sizes) |-> Sum(SubSeq(sizes, 1, i))]

DiscoveryCountsOneEach(tiled_uris_) == [i \in 1..Len(tiled_uris_) |-> i]

\* [0] * len(tiled_uris)
DiscoveryCounts(tiled_uris_) == [i \in 1..Len(tiled_uris_) |-> 0]

\* the children's own names, without the branch's path before them
ChildNames(sub_uri, children) == children

\* [f"{sub_uri}/{node}" for node in children]
ChildPaths(sub_uri, children) ==
    [i \in 1..Len(children) |-> sub_uri \o Slash \o children[i]]

\* a fan-in that only waits: the first task not yet run, failed or not
FirstPending(tasks_) ==
    IF \A i \in 1..Len(tasks_) : tasks_[i].state = "done"
    THEN Len(tasks_) + 1
    ELSE CHOOSE i \in 1..Len(tasks_) :
             /\ tasks_[i].state # "done"
             /\ \A j \in 1..(i - 1) : tasks_[j].state = "done"

\* the first task, by submission index, that is not done with a value
\* (Len + 1 when there is none): where iterating the results stops
FirstUnfinished(tasks_) ==
    IF \A i \in 1..Len(tasks_) : tasks_[i].state = "done" /\ tasks_[i].out.kind # "raise"
    THEN Len(tasks_) + 1
    ELSE CHOOSE i \in 1..Len(tasks_) :
             /\ ~(tasks_[i].state = "done" /\ tasks_[i].out.kind # "raise")
             /\ \A j \in 1..(i - 1) : tasks_[j].state = "done" /\ tasks_[j].out.kind # "raise"

(***************************************************************************)
(* browse_data                                                             *)
(***************************************************************************)
Empty == << >>

\* the default of selected_sub_uris: [""]
DefaultSelected == << Empty >>

SelectableSubUris ==
    { << "A" >>, << "A", "/", "d" >>, << "B" >>, << "C", "/", "e" >>, << "X" >> }

SubUriTemplates == { Empty, << "d" >>, << "e" >> }

\* every list of at most MaxSelected selectable sub URIs, and one that names
\* the root beside a leaf
SelectedLists ==
    UNION { [1..n -> SelectableSubUris] : n \in 0..MaxSelected }
        \cup { << Empty, << "A", "/", "d" >> >> }

\* the argument pairs browse_data is called with: the template is read in
\* discovery only, so it varies only there
BrowseInputs ==
    { << Empty, sel >> : sel \in SelectedLists }
        \cup { << t, DefaultSelected >> : t \in SubUriTemplates }

ReadIdle ==
    /\ block_data = None
    /\ dataset_dict = None
    /\ uri_index = None

InitBrowse ==
    /\ pc = "idle"
    /\ dataset = None
    /\ STATIC_TILED_CLIENT \in { None, StaticClient }
    /\ args = None
    /\ tiled_client = None
    /\ selected_sub_uris = << >>
    /\ tmp_sub_uris = << >>
    /\ tiled_uris = << >>
    /\ tasks = << >>
    /\ cursor = 0
    /\ result = None
    /\ hist = NoHist
    /\ ReadIdle

unusedByBrowse == << dataset, STATIC_TILED_CLIENT, block_data, dataset_dict, uri_index >>

\* lines 256-259 and 276-277: resolve the client, choose the mode.  A
\* classmethod: it is called on the class, where no dataset was constructed.
BrowseCall ==
    /\ pc = "idle"
    /\ dataset = None
    /\ \E input \in BrowseInputs :
         /\ args' = [op |-> "browse_data", root_uri |-> RootUri, api_key |-> None,
                     sub_uri_template |-> input[1], selected_sub_uris |-> input[2]]
         /\ selected_sub_uris' = input[2]
         /\ pc' = IF input[2] # DefaultSelected THEN "expand" ELSE "list_nodes"
    /\ tiled_client' = get_tiled_client(RootUri, None, STATIC_TILED_CLIENT)
    /\ hist' = [hist EXCEPT !.clients_built = IF tiled_client'.static THEN @ ELSE @ + 1]
    /\ tmp_sub_uris' = << >>
    /\ tiled_uris' = << >>
    /\ cursor' = 1
    /\ UNCHANGED << tasks, result >>
    /\ UNCHANGED unusedByBrowse

\* lines 260-266: one iteration of the loop over the selected sub URIs
ExpandStep ==
    /\ pc = "expand"
    /\ cursor <= Len(selected_sub_uris)
    /\ LET sub_uri == selected_sub_uris[cursor] IN
       \E first \in LookupOutcomes(sub_uri) :
         \/ /\ first = Missing
            /\ pc' = "raised"
            /\ result' = Raise("KeyError")
            /\ hist' = [hist EXCEPT !.lookups = @ + 1, !.failed = @ + 1]
            /\ UNCHANGED << tmp_sub_uris, cursor >>
         \/ /\ first # Missing
            /\ first.kind = "ArrayClient"
            /\ tmp_sub_uris' = Append(tmp_sub_uris, sub_uri)
            /\ cursor' = cursor + 1
            /\ hist' = [hist EXCEPT !.lookups = @ + 1]
            /\ UNCHANGED << pc, result >>
         \/ /\ first # Missing
            /\ first.kind # "ArrayClient"
            /\ \E second \in LookupOutcomes(sub_uri) :
                 IF second = Missing
                 THEN /\ pc' = "raised"
                      /\ result' = Raise("KeyError")
                      /\ hist' = [hist EXCEPT !.lookups = @ + 2, !.failed = @ + 1]
                      /\ UNCHANGED << tmp_sub_uris, cursor >>
                 ELSE /\ tmp_sub_uris' = tmp_sub_uris \o ChildPaths(sub_uri, second.children)
                      /\ cursor' = cursor + 1
                      /\ hist' = [hist EXCEPT !.lookups = @ + 2]
                      /\ UNCHANGED << pc, result >>
    /\ UNCHANGED << args, tiled_client, selected_sub_uris, tiled_uris, tasks >>
    /\ UNCHANGED unusedByBrowse

\* lines 267-272 and 229-232: the expansion replaces the selection and one
\* size task per node is handed to the pool
SubmitSizes ==
    /\ pc = "expand"
    /\ cursor > Len(selected_sub_uris)
    /\ selected_sub_uris' = tmp_sub_uris
    /\ tasks' = [i \in 1..Len(tmp_sub_uris) |-> Pending(tmp_sub_uris[i])]
    /\ hist' = [hist EXCEPT !.submitted = @ + Len(tmp_sub_uris)]
    /\ pc' = "sizes"
    /\ UNCHANGED << args, tiled_client, tmp_sub_uris, tiled_uris, cursor, result >>
    /\ UNCHANGED unusedByBrowse

\* lines 211-217 in a pool thread: any pending size task may run next
SizeTask(i) ==
    /\ pc = "sizes"
    /\ tasks[i].state = "pending"
    /\ \E tiled_array \in LookupOutcomes(tasks[i].arg) :
         /\ tasks' = [tasks EXCEPT ![i] = [state |-> "done", arg |-> @.arg,
                                           out |-> _get_node_size(tiled_array),
                                           seq |-> Completed(tasks) + 1]]
         /\ hist' = [hist EXCEPT !.size_lookups = @ + 1, !.lookups = @ + 1,
                                 !.failed = IF tiled_array = Missing THEN @ + 1 ELSE @]
    /\ UNCHANGED << pc, args, tiled_client, selected_sub_uris, tmp_sub_uris, tiled_uris,
                    cursor, result >>
    /\ UNCHANGED unusedByBrowse

\* lines 232-235 and 274: the calling thread takes the results by submission
\* index; the first failed one re-raises there, and the pool is discarded
GatherSizes ==
    /\ pc = "sizes"
    /\ LET k == FirstUnfinished(tasks) IN
         \/ /\ k > Len(tasks)
            /\ \A i \in 1..Len(tasks) : tasks[i].state = "done"
            /\ LET outs == SizesInOrder(tasks)
                   sizes == [i \in 1..Len(outs) |-> outs[i].n]
               IN  result' = [kind |-> "return", uris |-> selected_sub_uris,
                              counts |-> CumulativeSizes(sizes)]
            /\ pc' = "returned"
            /\ UNCHANGED tasks
         \/ /\ k <= Len(tasks)
            /\ tasks[k].state = "done"
            /\ result' = tasks[k].out
            /\ pc' = "raised"
            /\ tasks' = << >>
    /\ UNCHANGED << args, tiled_client, selected_sub_uris, tmp_sub_uris, tiled_uris,
                    cursor, hist >>
    /\ UNCHANGED unusedByBrowse

\* lines 278-285: list the root's children and hand one probe per child to
\* the pool
SubmitProbes ==
    /\ pc = "list_nodes"
    /\ \E root \in LookupOutcomes(Empty) :
         IF root = Missing
         THEN /\ pc' = "raised"
              /\ result' = Raise("KeyError")
              /\ hist' = [hist EXCEPT !.lookups = @ + 1, !.failed = @ + 1]
              /\ UNCHANGED tasks
         ELSE /\ tasks' = [i \in 1..Len(root.children) |-> Pending(root.children[i])]
              /\ hist' = [hist EXCEPT !.lookups = @ + 1,
                                      !.submitted = @ + Len(root.children)]
              /\ pc' = "probes"
              /\ UNCHANGED result
    /\ UNCHANGED << args, tiled_client, selected_sub_uris, tmp_sub_uris, tiled_uris, cursor >>
    /\ UNCHANGED unusedByBrowse

\* lines 204-208 in a pool thread: any pending probe may run next
ProbeTask(i) ==
    /\ pc = "probes"
    /\ tasks[i].state = "pending"
    /\ \E outcome \in LookupOutcomes(ProbePath(args.sub_uri_template, tasks[i].arg)) :
         /\ tasks' = [tasks EXCEPT ![i] = [state |-> "done", arg |-> @.arg,
                          out |-> _check_node(outcome, args.sub_uri_template, @.arg),
                          seq |-> Completed(tasks) + 1,
                          resolved |-> outcome # Missing]]
         /\ hist' = [hist EXCEPT !.lookups = @ + 1,
                                 !.probes_failed = IF outcome = Missing THEN @ + 1 ELSE @]
    /\ UNCHANGED << pc, args, tiled_client, selected_sub_uris, tmp_sub_uris, tiled_uris,
                    cursor, result >>
    /\ UNCHANGED unusedByBrowse

\* lines 286-289: as_completed hands the calling thread a finished probe
YieldProbe(i) ==
    /\ pc = "probes"
    /\ tasks[i].state = "done"
    /\ tasks' = [tasks EXCEPT ![i].state = "yielded"]
    /\ IF tasks[i].out.kind = "raise"
       THEN /\ pc' = "raised"
            /\ result' = tasks[i].out
            /\ UNCHANGED tiled_uris
       ELSE /\ tiled_uris' = IF tasks[i].out # None
                             THEN Append(tiled_uris, tasks[i].out.s)
                             ELSE tiled_uris
            /\ UNCHANGED << pc, result >>
    /\ UNCHANGED << args, tiled_client, selected_sub_uris, tmp_sub_uris, cursor, hist >>
    /\ UNCHANGED unusedByBrowse

\* a loop left as soon as one probe was handed over
ProbesExhaustedEarly(tasks_) == \E i \in 1..Len(tasks_) : tasks_[i].state = "yielded"

\* line 286: as_completed has handed over every probe, so the loop ends
ProbesExhausted(tasks_) == \A i \in 1..Len(tasks_) : tasks_[i].state = "yielded"

\* line 290
DiscoveryReturn ==
    /\ pc = "probes"
    /\ ProbesExhausted(tasks)
    /\ result' = [kind |-> "return", uris |-> tiled_uris,
                  counts |-> DiscoveryCounts(tiled_uris)]
    /\ pc' = "returned"
    /\ UNCHANGED << args, tiled_client, selected_sub_uris, tmp_sub_uris, tiled_uris,
                    tasks, cursor, hist >>
    /\ UNCHANGED unusedByBrowse

NextBrowse ==
    \/ BrowseCall
    \/ ExpandStep
    \/ SubmitSizes
    \/ \E i \in 1..Len(tasks) : SizeTask(i)
    \/ GatherSizes
    \/ SubmitProbes
    \/ \E i \in 1..Len(tasks) : ProbeTask(i)
    \/ \E i \in 1..Len(tasks) : YieldProbe(i)
    \/ DiscoveryReturn

SpecBrowse == InitBrowse /\ [][NextBrowse]_vars

(***************************************************************************)
(* read_data helpers.  An array is described by its shape and, per         *)
(* position along its leading axis, where that item came from: the node,   *)
(* the index along the node's leading axis (None for the whole array) and  *)
(* the stride of the spatial read.                                         *)
(***************************************************************************)
MaxIndexes == 2      \* read_data: at most this many requested indexes

PyList(items) == [kind |-> "list", items |-> items]

\* lines 104-105: a scalar index becomes a one-element list
NormalizeIndexes(indexes) == IF indexes.kind = "int" THEN << indexes.n >> ELSE indexes.items

\* the length of range(0, d, 10)
Strided(d) == (d + 9) \div 10

Array(shape, items) == [kind |-> "array", shape |-> shape, items |-> items]

Item(node, index, stride) == [node |-> node, index |-> index, stride |-> stride]

\* per-index URIs for every array of more than 2 dimensions
_get_tiled_uris_any_stack(base_tiled_uri, shape, indexes) ==
    IF Len(shape) > 2
    THEN [k \in 1..Len(indexes) |-> SliceUri(base_tiled_uri, indexes[k])]
    ELSE << base_tiled_uri >>

\* lines 175-180; the replace() of line 177 builds a string that is dropped
_get_tiled_uris(base_tiled_uri, shape, indexes) ==
    IF Len(shape) > 2 /\ shape[1] > 1
    THEN [k \in 1..Len(indexes) |-> SliceUri(base_tiled_uri, indexes[k])]
    ELSE << base_tiled_uri >>

\* tiled_data[indexes, ...]: the items at the requested positions of the
\* leading axis, in request order; a position past the end raises
TakeItems(node, shape, indexes, stride) ==
    [k \in 1..Len(indexes) |-> Item(node, PyInt(indexes[k]), stride)]

\* lines 115-130: the block read from the array of the given shape
SliceBlock(node, shape, indexes, downsample) ==
    LET rank == Len(shape)
        inRange == \A k \in 1..Len(indexes) : indexes[k] < shape[1]
    IN  IF downsample
        THEN IF rank = 4
             THEN IF ~inRange THEN Raise("IndexError")
                  ELSE Array(<< Len(indexes), shape[2], Strided(shape[3]), Strided(shape[4]) >>,
                             TakeItems(node, shape, indexes, 10))
             ELSE IF rank = 3
             THEN IF ~inRange THEN Raise("IndexError")
                  ELSE Array(<< Len(indexes), Strided(shape[2]), Strided(shape[3]) >>,
                             TakeItems(node, shape, indexes, 10))
             ELSE IF rank < 2 THEN Raise("IndexError")
             ELSE Array(<< 1, Strided(shape[1]), Strided(shape[2]) >>
                            \o SubSeq(shape, 3, rank),
                        << Item(node, None, 10) >>)
        ELSE IF rank = 4 \/ rank = 3
             THEN IF ~inRange THEN Raise("IndexError")
                  ELSE Array(<< Len(indexes) >> \o Tail(shape),
                             TakeItems(node, shape, indexes, 1))
             ELSE Array(<< 1 >> \o shape, << Item(node, None, 1) >>)

\* np.squeeze(block_data, axis=1)
SqueezeAxis1(block) ==
    Array(<< block.shape[1] >> \o SubSeq(block.shape, 3, Len(block.shape)), block.items)

\* lines 136-137
GrayscaleSqueeze(block) ==
    IF Len(block.shape) < 2 THEN Raise("IndexError")
    ELSE IF block.shape[2] = 1 THEN SqueezeAxis1(block)
    ELSE block

\* iterating block_data: one image per position of its leading axis
Images(block) ==
    [k \in 1..Len(block.items) |-> [item |-> block.items[k], shape |-> Tail(block.shape)]]

\* a map over the block alone, whatever the number of flags
LenOfFirst(a, b) == a

\* executor.map stops at its shortest iterable
Min(a, b) == IF a < b THEN a ELSE b

\* Dataset._process_image: the exported image of the given input
_process_image(image, log, resize, export, percentiles) ==
    [kind |-> "exported", image |-> image, log |-> log, resize |-> resize,
     export |-> export, percentiles |-> percentiles]

\* lines 152-163
_read_data_point(image, log, resize, export, percentiles) ==
    _process_image(image, log, resize, export, percentiles)

DataAsCompleted(tasks_) == [i \in 1..Len(tasks_) |-> tasks_[CompletedAt(tasks_, i)].out]

\* lines 140-149: list(executor.map(...)) once every task is done: the
\* results by submission index
DataInOrder(tasks_) == [i \in 1..Len(tasks_) |-> tasks_[i].out]

AfterUrisAlwaysFetch(just_uri) == "fetch"

\* lines 111-112: where the call goes once the URIs are derived
AfterUris(just_uri) == IF just_uri THEN "returned" ELSE "fetch"

ReturnRawSqueezed(block, uris) ==
    [kind |-> "return", uris |-> uris,
     block |-> IF Len(block.shape) >= 2 /\ block.shape[2] = 1 THEN SqueezeAxis1(block)
               ELSE block]

\* lines 132-133
ReturnRaw(block, uris) == [kind |-> "return", block |-> block, uris |-> uris]

\* line 132
IsRaw(export) == export = "raw"

(***************************************************************************)
(* read_data                                                               *)
(***************************************************************************)
DatasetUris ==
    { << "A", "/", "d" >>, << "A", "/", "e" >>, << "C", "/", "d" >>, << "C", "/", "e" >>,
      << "C", "/", "g" >>, << "C", "/", "h" >>, << "C", "/", "k" >>, << "C", "/", "v" >>,
      << "C", "/", "z" >>, << "B" >>, << "X" >> }

\* the largest leading dimension among the store's datasets
LargestLeading ==
    CHOOSE m \in 0..100 :
        /\ \A u \in DatasetUris :
               (Resolve(u).kind = "ArrayClient" /\ Len(Resolve(u).shape) > 0)
                   => Resolve(u).shape[1] <= m
        /\ \E u \in DatasetUris :
               Resolve(u).kind = "ArrayClient" /\ Len(Resolve(u).shape) > 0
                   /\ Resolve(u).shape[1] = m

\* requested positions: in range for the longest dataset, some past the end
\* of the shorter ones
IndexValues == 0..(LargestLeading - 1)

IndexInputs ==
    { PyInt(i) : i \in IndexValues }
        \cup { PyList(l) : l \in UNION { [1..n -> IndexValues] : n \in 0..MaxIndexes } }

Exports == { "base64", "pil", "raw" }

Percentiles == { << 0, 100 >>, << 1, 99 >> }

Flags(export, resize, log, downsample, just_uri, percentiles) ==
    [export |-> export, resize |-> resize, log |-> log, downsample |-> downsample,
     just_uri |-> just_uri, percentiles |-> percentiles]

\* the flag combinations read_data is called with.  A raw export is called
\* with every combination of resize, log and percentiles; an image export
\* hands them to the transform untouched, so the defaults and one setting
\* that differs in all three stand for them; a call with just_uri reads
\* none of the others.
ReadFlags ==
    { Flags("raw", r, l, d, FALSE, p) :
          r \in BOOLEAN, l \in BOOLEAN, d \in BOOLEAN, p \in Percentiles }
        \cup { Flags(e, TRUE, FALSE, d, FALSE, << 0, 100 >>) :
                   e \in Exports \ { "raw" }, d \in BOOLEAN }
        \cup { Flags(e, FALSE, TRUE, d, FALSE, << 1, 99 >>) :
                   e \in Exports \ { "raw" }, d \in BOOLEAN }
        \cup { Flags("base64", TRUE, FALSE, FALSE, TRUE, << 0, 100 >>) }

InitRead ==
    /\ pc = "idle"
    /\ dataset \in { TiledDatasetInit(u, 0) : u \in DatasetUris }
    /\ STATIC_TILED_CLIENT \in { None, StaticClient }
    /\ args = None
    /\ tiled_client = None
    /\ selected_sub_uris = << >>
    /\ tmp_sub_uris = << >>
    /\ tiled_uris = << >>
    /\ tasks = << >>
    /\ cursor = 0
    /\ result = None
    /\ hist = NoHist
    /\ ReadIdle

unusedByRead == << dataset, STATIC_TILED_CLIENT, selected_sub_uris, tmp_sub_uris,
                   dataset_dict, uri_index, cursor >>

\* lines 104-108: normalise the indexes, resolve the client
ReadCall ==
    /\ pc = "idle"
    /\ dataset # None
    /\ \E indexes \in IndexInputs, flags \in ReadFlags :
         args' = [op |-> "read_data", root_uri |-> RootUri, api_key |-> None,
                  given |-> indexes, indexes |-> NormalizeIndexes(indexes),
                  flags |-> flags]
    /\ tiled_client' = get_tiled_client(RootUri, None, STATIC_TILED_CLIENT)
    /\ hist' = [hist EXCEPT !.clients_built = IF tiled_client'.static THEN @ ELSE @ + 1]
    /\ pc' = "get_uris"
    /\ UNCHANGED << tiled_uris, block_data, tasks, result >>
    /\ UNCHANGED unusedByRead

\* lines 110-112 and 174-180: look the node up, derive the URIs, return them
\* if only they were asked for
GetTiledUris ==
    /\ pc = "get_uris"
    /\ \E tiled_metadata \in LookupOutcomes(dataset.uri) :
         IF tiled_metadata = Missing
         THEN /\ pc' = "raised"
              /\ result' = Raise("KeyError")
              /\ hist' = [hist EXCEPT !.lookups = @ + 1, !.failed = @ + 1]
              /\ UNCHANGED tiled_uris
         ELSE IF tiled_metadata.kind # "ArrayClient"
         THEN /\ pc' = "raised"
              /\ result' = Raise("AttributeError")
              /\ hist' = [hist EXCEPT !.lookups = @ + 1]
              /\ UNCHANGED tiled_uris
         ELSE /\ tiled_uris' = _get_tiled_uris(NodeUri(dataset.uri), tiled_metadata.shape,
                                               args.indexes)
              /\ pc' = AfterUris(args.flags.just_uri)
              /\ result' = IF pc' = "returned"
                           THEN [kind |-> "return", uris |-> tiled_uris']
                           ELSE result
              /\ hist' = [hist EXCEPT !.lookups = @ + 1]
    /\ UNCHANGED << args, tiled_client, block_data, tasks >>
    /\ UNCHANGED unusedByRead

\* lines 114-149: look the node up again, read the block, return it raw or
\* squeeze it and hand one transform task per image to the pool
Fetch ==
    /\ pc = "fetch"
    /\ \E tiled_data \in LookupOutcomes(dataset.uri) :
         IF tiled_data = Missing
         THEN /\ pc' = "raised"
              /\ result' = Raise("KeyError")
              /\ hist' = [hist EXCEPT !.lookups = @ + 1, !.failed = @ + 1]
              /\ UNCHANGED << block_data, tasks >>
         ELSE LET block == SliceBlock(dataset.uri, tiled_data.shape, args.indexes,
                                      args.flags.downsample)
                  squeezed == GrayscaleSqueeze(block)
              IN  IF block.kind = "raise"
                  THEN /\ pc' = "raised"
                       /\ result' = block
                       /\ hist' = [hist EXCEPT !.lookups = @ + 1, !.array_reads = @ + 1]
                       /\ UNCHANGED << block_data, tasks >>
                  ELSE IF IsRaw(args.flags.export)
                  THEN /\ pc' = "returned"
                       /\ result' = ReturnRaw(block, tiled_uris)
                       /\ block_data' = block
                       /\ hist' = [hist EXCEPT !.lookups = @ + 1, !.array_reads = @ + 1]
                       /\ UNCHANGED tasks
                  ELSE IF squeezed.kind = "raise"
                  THEN /\ pc' = "raised"
                       /\ result' = squeezed
                       /\ block_data' = block
                       /\ hist' = [hist EXCEPT !.lookups = @ + 1, !.array_reads = @ + 1]
                       /\ UNCHANGED tasks
                  ELSE /\ pc' = "transform"
                       /\ block_data' = squeezed
                       /\ tasks' = [k \in 1..Min(Len(squeezed.items), Len(args.indexes)) |->
                                        Pending(Images(squeezed)[k])]
                       /\ hist' = [hist EXCEPT !.lookups = @ + 1, !.array_reads = @ + 1,
                                      !.submitted = @ + Len(tasks')]
                       /\ UNCHANGED result
    /\ UNCHANGED << args, tiled_client, tiled_uris >>
    /\ UNCHANGED unusedByRead

\* lines 152-163 in a pool thread: any pending transform may run next, and
\* may fail
TransformTask(k) ==
    /\ pc = "transform"
    /\ tasks[k].state = "pending"
    /\ \E failed \in BOOLEAN :
         tasks' = [tasks EXCEPT ![k] =
                      [state |-> "done", arg |-> @.arg,
                       out |-> IF failed THEN Raise("TransformError")
                               ELSE _read_data_point(@.arg, args.flags.log,
                                        args.flags.resize, args.flags.export,
                                        args.flags.percentiles),
                       seq |-> Completed(tasks) + 1]]
    /\ UNCHANGED << pc, args, tiled_client, tiled_uris, block_data, result, hist >>
    /\ UNCHANGED unusedByRead

\* lines 140-150: the calling thread takes the results by submission index;
\* the first failed one re-raises there, and the pool is discarded
GatherData ==
    /\ pc = "transform"
    /\ LET k == FirstUnfinished(tasks) IN
         \/ /\ k > Len(tasks)
            /\ result' = [kind |-> "return", data |-> DataInOrder(tasks),
                          uris |-> tiled_uris]
            /\ pc' = "returned"
            /\ UNCHANGED tasks
         \/ /\ k <= Len(tasks)
            /\ tasks[k].state = "done"
            /\ result' = tasks[k].out
            /\ pc' = "raised"
            /\ tasks' = << >>
    /\ UNCHANGED << args, tiled_client, tiled_uris, block_data, hist >>
    /\ UNCHANGED unusedByRead

NextRead ==
    \/ ReadCall
    \/ GetTiledUris
    \/ Fetch
    \/ \E k \in 1..Len(tasks) : TransformTask(k)
    \/ GatherData

SpecRead == InitRead /\ [][NextRead]_vars

(***************************************************************************)
(* Properties of browse_data.                                              *)
(***************************************************************************)
IsBrowse == args # None /\ args.op = "browse_data"

IsExplicitBrowse == IsBrowse /\ args.selected_sub_uris # DefaultSelected

IsDiscovery == IsBrowse /\ args.selected_sub_uris = DefaultSelected

\* the local image count of the node at path, read off the store
LocalImageCount(path) ==
    LET shape == Resolve(path).shape
    IN  IF Len(shape) = 2 THEN 1 ELSE shape[1]

\* C1: when explicit-selection browse_data returns, the count at every
\* position i is the sum of the local image counts of nodes 1..i of the
\* returned list, so consecutive differences are the local counts and the
\* sequence never decreases, whatever order the size tasks completed in.
C1_CumulativeByPosition ==
    (pc = "returned" /\ IsExplicitBrowse) =>
        /\ Len(result.counts) = Len(result.uris)
        /\ \A i \in 1..Len(result.uris) :
             /\ result.counts[i] =
                    Sum([j \in 1..i |-> LocalImageCount(result.uris[j])])
             /\ result.counts[i] - (IF i = 1 THEN 0 ELSE result.counts[i - 1])
                    = LocalImageCount(result.uris[i])
             /\ i > 1 => result.counts[i - 1] <= result.counts[i]

\* an explicit browse returned for nodes of different local counts whose
\* size tasks completed in the reverse of their submission order
C1_Witness ==
    /\ pc = "returned"
    /\ IsExplicitBrowse
    /\ Len(result.uris) >= 2
    /\ LocalImageCount(result.uris[1]) # LocalImageCount(result.uris[2])
    /\ tasks[2].seq < tasks[1].seq

\* C4: when discovery-mode browse_data returns, the returned URIs are
\* exactly the probe paths of the root's children whose probe resolved, each
\* once; and once the probes are submitted the call never raises.
C4_DiscoveryKeepsResolved ==
    IsDiscovery =>
        /\ pc = "returned" =>
             /\ { result.uris[k] : k \in 1..Len(result.uris) }
                    = { ProbePath(args.sub_uri_template, tasks[i].arg) :
                            i \in { j \in 1..Len(tasks) : tasks[j].resolved } }
             /\ Len(result.uris) = Cardinality({ j \in 1..Len(tasks) : tasks[j].resolved })
             /\ [i \in 1..Len(tasks) |-> tasks[i].arg] = Resolve(Empty).children
        /\ pc = "raised" => tasks = << >>

\* discovery returned after the probes of some children resolved and those
\* of others failed
C4_Witness ==
    /\ IsDiscovery
    /\ pc = "returned"
    /\ \E i, j \in 1..Len(tasks) : tasks[i].resolved /\ ~tasks[j].resolved
    /\ Len(result.uris) >= 2

\* C5: in discovery-mode browse_data no node size is ever looked up, and
\* the returned counts are one zero per returned URI.
C5_DiscoveryZeroCounts ==
    IsDiscovery =>
        /\ hist.size_lookups = 0
        /\ pc = "returned" =>
             /\ Len(result.counts) = Len(result.uris)
             /\ \A i \in 1..Len(result.counts) : result.counts[i] = 0

\* discovery returned at least two datasets
C5_Witness ==
    /\ IsDiscovery
    /\ pc = "returned"
    /\ Len(result.uris) >= 2
    /\ Len(result.counts) >= 2

(***************************************************************************)
(* The pure functions, each applied to inputs drawn from bounded sets.     *)
(***************************************************************************)
MaxRank == 4         \* _get_node_size: shapes of at most this many dimensions

Dims == { 1, 2, 5, 64 }

Shapes == UNION { [1..n -> Dims] : n \in 0..MaxRank }

PureIdle ==
    /\ pc = "idle"
    /\ STATIC_TILED_CLIENT = None
    /\ tiled_client = None
    /\ selected_sub_uris = << >>
    /\ tmp_sub_uris = << >>
    /\ tiled_uris = << >>
    /\ tasks = << >>
    /\ cursor = 0
    /\ result = None
    /\ hist = NoHist
    /\ ReadIdle

InitNodeSize ==
    /\ PureIdle
    /\ dataset = None
    /\ \E node \in { Leaf(shape) : shape \in Shapes } \cup { Missing, Branch(<< >>) } :
         args = [op |-> "_get_node_size", tiled_array |-> node]

\* lines 211-217
GetNodeSize ==
    /\ pc = "idle"
    /\ args.op = "_get_node_size"
    /\ result' = _get_node_size(args.tiled_array)
    /\ pc' = "returned"
    /\ UNCHANGED << dataset, STATIC_TILED_CLIENT, args, tiled_client, selected_sub_uris,
                    tmp_sub_uris, tiled_uris, block_data, tasks, cursor, hist,
                    dataset_dict, uri_index >>

SpecNodeSize == InitNodeSize /\ [][GetNodeSize]_vars

\* node addresses, one of which has "slice=" in a path segment
BaseUris ==
    { NodeUri(<< "A", "/", "d" >>), NodeUri(<< "C", "/", "h" >>), ServerUri,
      ServerUri \o SliceEq \o << "7", "/", "a" >> }

UriIndexes == 0..MaxUriIndex \cup { 100, 2048 }

InitUri ==
    /\ PureIdle
    /\ dataset = None
    /\ \E base \in BaseUris, index \in UriIndexes,
          shape \in { << 2, 2 >>, << 1, 2, 2 >>, << 3, 2, 2 >>, << 2, 1, 2, 2 >> } :
         args = [op |-> "get_uri_index", base |-> base, index |-> index, shape |-> shape]

\* lines 175-180 for one requested index
FormatUri ==
    /\ pc = "idle"
    /\ args.op = "get_uri_index"
    /\ tiled_uris' = _get_tiled_uris(args.base, args.shape, << args.index >>)
    /\ pc' = "formatted"
    /\ UNCHANGED << dataset, STATIC_TILED_CLIENT, args, tiled_client, selected_sub_uris,
                    tmp_sub_uris, block_data, tasks, cursor, result, hist,
                    dataset_dict, uri_index >>

\* lines 190-192 on the URI just derived
ParseUri ==
    /\ pc = "formatted"
    /\ uri_index' = get_uri_index(tiled_uris[1])
    /\ pc' = "parsed"
    /\ UNCHANGED << dataset, STATIC_TILED_CLIENT, args, tiled_client, selected_sub_uris,
                    tmp_sub_uris, tiled_uris, block_data, tasks, cursor, result, hist,
                    dataset_dict >>

SpecUri == InitUri /\ [][FormatUri \/ ParseUri]_vars

InitDataset ==
    /\ PureIdle
    /\ args = [op |-> "to_dict"]
    /\ dataset \in { TiledDatasetInit(u, c) : u \in DatasetUris, c \in 0..MaxCount }

\* lines 32-41
ToDict ==
    /\ pc = "idle"
    /\ args.op = "to_dict"
    /\ dataset_dict' = to_dict(dataset)
    /\ pc' = "serialised"
    /\ UNCHANGED << dataset, STATIC_TILED_CLIENT, args, tiled_client, selected_sub_uris,
                    tmp_sub_uris, tiled_uris, block_data, tasks, cursor, result, hist,
                    uri_index >>

\* lines 43-52
FromDict ==
    /\ pc = "serialised"
    /\ result' = [kind |-> "return", dataset |-> from_dict(dataset_dict)]
    /\ pc' = "restored"
    /\ UNCHANGED << dataset, STATIC_TILED_CLIENT, args, tiled_client, selected_sub_uris,
                    tmp_sub_uris, tiled_uris, block_data, tasks, cursor, hist,
                    dataset_dict, uri_index >>

SpecDataset == InitDataset /\ [][ToDict \/ FromDict]_vars

\* C2: _get_node_size of an array node is 1 when its shape has exactly two
\* dimensions and otherwise its leading dimension: 5 for (5, 64, 64), 1 for
\* (64, 64).
C2_NodeSize ==
    (pc = "returned" /\ args.op = "_get_node_size" /\ args.tiled_array.kind = "ArrayClient"
         /\ Len(args.tiled_array.shape) >= 1) =>
        LET shape == args.tiled_array.shape
        IN  /\ Len(shape) = 2 => result = PyInt(1)
            /\ Len(shape) # 2 => result = PyInt(shape[1])
            /\ shape = << 5, 64, 64 >> => result = PyInt(5)
            /\ shape = << 64, 64 >> => result = PyInt(1)

\* the size of a (64, 64) node was computed
C2_Witness ==
    /\ pc = "returned"
    /\ args.op = "_get_node_size"
    /\ args.tiled_array = Leaf(<< 64, 64 >>)
    /\ result = PyInt(1)

\* C9: the index parsed from the URI derived for index i on a multi-image
\* node, which is the base address followed by "?slice=" and i, is i; the
\* index parsed from a URI without "slice=" is 0.
C9_UriIndexRoundTrip ==
    (pc = "parsed" /\ args.op = "get_uri_index") =>
        /\ (Len(args.shape) > 2 /\ args.shape[1] > 1) =>
             /\ Len(tiled_uris) = 1
             /\ SubSeq(tiled_uris[1], 1, Len(args.base) + Len(SliceQuery))
                    = args.base \o SliceQuery
             /\ uri_index = PyInt(args.index)
        /\ ~Contains(tiled_uris[1], SliceEq) => uri_index = PyInt(0)

\* a three-digit index was parsed back from the URI of a node whose own
\* address has "slice=" in it
C9_Witness ==
    /\ pc = "parsed"
    /\ args.op = "get_uri_index"
    /\ Contains(args.base, SliceEq)
    /\ args.index = 100
    /\ Contains(tiled_uris[1], SliceQuery)
    /\ uri_index = PyInt(100)

\* C10: to_dict gives exactly the keys uri and cumulative_data_count with the
\* dataset's values, and from_dict of it is a dataset with the same uri and
\* the same cumulative_data_count.
C10_DictRoundTrip ==
    (args # None /\ args.op = "to_dict") =>
        /\ pc \in { "serialised", "restored" } =>
             /\ DOMAIN dataset_dict = { "uri", "cumulative_data_count" }
             /\ dataset_dict.uri = dataset.uri
             /\ dataset_dict.cumulative_data_count = dataset.cumulative_data_count
        /\ pc = "restored" =>
             /\ result.dataset.uri = dataset.uri
             /\ result.dataset.cumulative_data_count = dataset.cumulative_data_count
             /\ result.dataset = dataset

\* a dataset with a non-zero count was restored from its dictionary
C10_Witness ==
    /\ pc = "restored"
    /\ args.op = "to_dict"
    /\ dataset.cumulative_data_count = MaxCount
    /\ result.dataset.cumulative_data_count = MaxCount

(***************************************************************************)
(* browse_data and read_data together.                                     *)
(***************************************************************************)
Init == InitBrowse \/ InitRead

Next == NextBrowse \/ NextRead

Spec == Init /\ [][Next]_vars

(***************************************************************************)
(* Properties of read_data.                                                *)
(***************************************************************************)
IsRead == args # None /\ args.op = "read_data"

ReturnsImages == IsRead /\ ~args.flags.just_uri /\ args.flags.export # "raw"

\* the shape of the dataset's node, read off the store
NodeShape == Resolve(dataset.uri).shape

\* a stack of more than one image: 3-D or 4-D with a leading dimension > 1
IsMultiSlice ==
    /\ Resolve(dataset.uri).kind = "ArrayClient"
    /\ Len(NodeShape) \in { 3, 4 }
    /\ NodeShape[1] > 1

\* C3: when read_data returns for a multi-slice node, there is one URI per
\* requested index and the k-th one is the node's address with
\* slice=indexes[k]; when it returns images there is one per requested index
\* and the k-th one is the transform, under the call's flags, of the slice
\* at indexes[k], whatever order the transform tasks completed in.
C3_ReadKeepsRequestOrder ==
    (pc = "returned" /\ IsRead /\ IsMultiSlice) =>
        /\ Len(result.uris) = Len(args.indexes)
        /\ \A k \in 1..Len(args.indexes) :
             /\ SubSeq(result.uris[k], 1, Len(NodeUri(dataset.uri))) = NodeUri(dataset.uri)
             /\ Contains(result.uris[k], SliceEq)
             /\ get_uri_index(result.uris[k]) = PyInt(args.indexes[k])
        /\ ReturnsImages =>
             /\ Len(result.data) = Len(args.indexes)
             /\ \A k \in 1..Len(args.indexes) :
                  /\ result.data[k].kind = "exported"
                  /\ result.data[k].image.item.node = dataset.uri
                  /\ result.data[k].image.item.index = PyInt(args.indexes[k])
                  /\ result.data[k].log = args.flags.log
                  /\ result.data[k].resize = args.flags.resize
                  /\ result.data[k].export = args.flags.export
                  /\ result.data[k].percentiles = args.flags.percentiles

\* images were returned for a descending index list whose second transform
\* completed before its first
C3_Witness ==
    /\ pc = "returned"
    /\ ReturnsImages
    /\ IsMultiSlice
    /\ Len(args.indexes) >= 2
    /\ args.indexes[1] > args.indexes[2]
    /\ tasks[2].seq < tasks[1].seq

\* the block read_data reads for the call's arguments, read off the store:
\* its rank and the origin of each of its items
IsSlicedBlock(block) ==
    LET stacked == Len(NodeShape) \in { 3, 4 }
    IN  /\ block.kind = "array"
        /\ Len(block.shape) = IF stacked THEN Len(NodeShape) ELSE Len(NodeShape) + 1
        /\ block.shape[1] = IF stacked THEN Len(args.indexes) ELSE 1
        /\ ~args.flags.downsample =>
               SubSeq(block.shape, 2, Len(block.shape))
                   = IF stacked THEN Tail(NodeShape) ELSE NodeShape
        /\ Len(block.items) = block.shape[1]
        /\ \A k \in 1..Len(block.items) :
             /\ block.items[k].node = dataset.uri
             /\ block.items[k].index = IF stacked THEN PyInt(args.indexes[k]) ELSE None
             /\ block.items[k].stride = IF args.flags.downsample THEN 10 ELSE 1

\* C7: a read_data call with export "raw" never submits a transform task,
\* and what it returns is the block as sliced (not squeezed, its items the
\* slices themselves) with the URIs, whatever resize, log and percentiles
\* are.
C7_RawBypassesTransform ==
    (IsRead /\ args.flags.export = "raw" /\ ~args.flags.just_uri) =>
        /\ hist.submitted = 0
        /\ tasks = << >>
        /\ pc = "returned" =>
             /\ DOMAIN result = { "kind", "block", "uris" }
             /\ IsSlicedBlock(result.block)
             /\ result.uris = tiled_uris

\* a raw export of a 4-D grayscale stack, called with log and resize set,
\* returned a block that still has its singleton channel axis
C7_Witness ==
    /\ pc = "returned"
    /\ IsRead
    /\ args.flags.export = "raw"
    /\ args.flags.log
    /\ args.flags.resize
    /\ args.flags.percentiles = << 1, 99 >>
    /\ Len(NodeShape) = 4
    /\ Len(args.indexes) >= 2
    /\ result.block.shape[2] = 1

\* C8: a read_data call with just_uri reads no array data and starts no
\* transform task, and returns the URI sequence alone.
C8_JustUriReadsNothing ==
    (IsRead /\ args.flags.just_uri) =>
        /\ hist.array_reads = 0
        /\ hist.submitted = 0
        /\ tasks = << >>
        /\ block_data = None
        /\ pc \in { "get_uris", "returned", "raised" }
        /\ pc = "returned" => result = [kind |-> "return", uris |-> tiled_uris]

\* a just_uri call returned the URIs of two slices
C8_Witness ==
    /\ pc = "returned"
    /\ IsRead
    /\ args.flags.just_uri
    /\ IsMultiSlice
    /\ Len(result.uris) >= 2

\* C6: in explicit-selection browse_data and in read_data a call that had a
\* remote lookup fail never returns a result, and a call that raised hands
\* the caller an error and nothing else.
C6_LookupFailurePropagates ==
    (IsExplicitBrowse \/ IsRead) =>
        /\ pc = "returned" => hist.failed = 0
        /\ hist.failed > 0 => pc \in { "raised", "sizes" }
        /\ pc = "raised" => result.kind = "raise" /\ DOMAIN result = { "kind", "error" }

\* an explicit browse raised after one size lookup failed and another
\* succeeded
C6_Witness ==
    /\ pc = "raised"
    /\ IsExplicitBrowse
    /\ hist.failed = 1
    /\ hist.size_lookups >= 2
    /\ result = Raise("KeyError")

(***************************************************************************)
(* Client resolution: the first step of browse_data and of read_data, for  *)
(* every value the module-level STATIC_TILED_CLIENT can have after import. *)
(***************************************************************************)
InitClient ==
    /\ pc = "idle"
    /\ dataset \in { None } \cup { TiledDatasetInit(u, 0) : u \in DatasetUris }
    /\ STATIC_TILED_CLIENT \in { None, StaticClient, EmptyStaticClient }
    /\ args = None
    /\ tiled_client = None
    /\ selected_sub_uris = << >>
    /\ tmp_sub_uris = << >>
    /\ tiled_uris = << >>
    /\ tasks = << >>
    /\ cursor = 0
    /\ result = None
    /\ hist = NoHist
    /\ ReadIdle

NextClient == BrowseCall \/ ReadCall

SpecClient == InitClient /\ [][NextClient]_vars

\* C11: once a call has resolved its client, a set static client is the
\* client in use and no client was built from the supplied pair; an unset one
\* means the client in use was built from the supplied root URI and key.
C11_StaticClientPrecedence ==
    (pc # "idle" /\ (IsBrowse \/ IsRead)) =>
        /\ STATIC_TILED_CLIENT # None =>
              /\ tiled_client = STATIC_TILED_CLIENT
              /\ hist.clients_built = 0
        /\ STATIC_TILED_CLIENT = None =>
              /\ tiled_client = from_uri(args.root_uri, args.api_key)
              /\ hist.clients_built = 1

\* what the code does: the static client is used when it is set and its
\* container is not empty; anything else builds a client from the pair
C11_StaticClientWhenTruthy ==
    (pc # "idle" /\ (IsBrowse \/ IsRead)) =>
        /\ Truthy(STATIC_TILED_CLIENT) =>
              /\ tiled_client = STATIC_TILED_CLIENT
              /\ hist.clients_built = 0
        /\ ~Truthy(STATIC_TILED_CLIENT) =>
              /\ tiled_client = from_uri(args.root_uri, args.api_key)
              /\ hist.clients_built = 1

\* a read_data call on a process whose static client is set, on an empty
\* catalogue, went on with a client built from the supplied pair
C11_EmptyStaticBypassed ==
    /\ pc = "get_uris"
    /\ IsRead
    /\ STATIC_TILED_CLIENT = EmptyStaticClient
    /\ tiled_client = from_uri(RootUri, None)
    /\ hist.clients_built = 1

(***************************************************************************)
(* Array rank in read_data.                                                *)
(***************************************************************************)
\* the dataset's node is an array whose rank is none of 2, 3 and 4
IsOddRank ==
    /\ Resolve(dataset.uri).kind = "ArrayClient"
    /\ Len(NodeShape) \notin { 2, 3, 4 }

\* C12: a read_data call that goes on to slice a node whose rank is none of
\* 2, 3 and 4 never returns and never holds a block made from the node; once
\* the array was reached, the call ends with ShapeMismatch.
C12_OddRankRaises ==
    (IsRead /\ ~args.flags.just_uri /\ IsOddRank) =>
        /\ pc # "returned"
        /\ block_data = None
        /\ hist.array_reads > 0 => (pc = "raised" /\ result = Raise("ShapeMismatch"))

\* read_data returned one image for a 5-D node: the whole array taken as a
\* single image, with one URI per requested index
C12_OddRankReturned ==
    /\ pc = "returned"
    /\ ReturnsImages
    /\ Len(NodeShape) = 5
    /\ ~args.flags.downsample
    /\ Len(args.indexes) = 2
    /\ Len(result.data) = 1
    /\ Len(result.uris) = 2
    /\ block_data.shape = << 1 >> \o NodeShape

(***************************************************************************)
(* A failing transform in read_data.                                       *)
(***************************************************************************)
\* some transform task of the running call has failed
SomeTransformFailed ==
    \E k \in 1..Len(tasks) : tasks[k].state = "done" /\ tasks[k].out.kind = "raise"

\* C13: a read_data call in which the transform of an image failed never
\* returns: its next step is another transform or the re-raise of a failure,
\* which hands the caller the error and no image sequence; a call that does
\* return images has the transform of every image of the block at its own
\* position.
C13_TransformFailureFailsBatch ==
    /\ [][(ReturnsImages /\ pc = "transform" /\ SomeTransformFailed) =>
             /\ pc' \in { "transform", "raised" }
             /\ pc' = "raised" =>
                  /\ result' \in { tasks[k].out : k \in 1..Len(tasks) }
                  /\ result'.kind = "raise"
                  /\ DOMAIN result' = { "kind", "error" }]_vars
    /\ [](ReturnsImages /\ pc = "returned" =>
             /\ ~SomeTransformFailed
             /\ Len(result.data) = Len(tasks)
             /\ \A k \in 1..Len(tasks) :
                    result.data[k] =
                        _read_data_point(Images(block_data)[k], args.flags.log,
                                         args.flags.resize, args.flags.export,
                                         args.flags.percentiles))

\* a read of two images raised the failure of a transform
C13_Witness ==
    /\ pc = "raised"
    /\ ReturnsImages
    /\ IsMultiSlice
    /\ hist.submitted = 2
    /\ result = Raise("TransformError")

(***************************************************************************)
(* The collection index: an ordered list of datasets whose cumulative      *)
(* counts are the prefix sums browse_data computes, and the translation of *)
(* a flat index into a dataset position and a local index.                 *)
(***************************************************************************)
MaxDatasets == 3       \* datasets in a collection
MaxLocalCount == 2     \* images of one dataset

LocalCounts == UNION { [1..n -> 0..MaxLocalCount] : n \in 0..MaxDatasets }

\* the datasets of a collection whose nodes have the given local counts
Collection(counts) ==
    LET cumulative == CumulativeSizes(counts)
    IN  [i \in 1..Len(counts) |-> TiledDatasetInit(<< "A", "/", "d" >>, cumulative[i])]

\* the cumulative count of the dataset before position i (1-based)
PreviousCumulative(datasets, i) ==
    IF i = 1 THEN 0 ELSE datasets[i - 1].cumulative_data_count

\* locate(flatIndex) -> (datasetPosition, localIndex), positions from 0
locate(datasets, flatIndex) ==
    LET final == PreviousCumulative(datasets, Len(datasets) + 1)
    IN  IF flatIndex < 0 \/ flatIndex >= final THEN Raise("IndexOutOfRange")
        ELSE LET i == CHOOSE j \in 1..Len(datasets) :
                          /\ datasets[j].cumulative_data_count > flatIndex
                          /\ \A h \in 1..(j - 1) :
                                 datasets[h].cumulative_data_count <= flatIndex
             IN  [kind |-> "located", datasetPosition |-> i - 1,
                  localIndex |-> flatIndex - PreviousCumulative(datasets, i)]

InitLocate ==
    /\ PureIdle
    /\ dataset = None
    /\ \E counts \in LocalCounts :
       \E flatIndex \in (0 - 1)..(Sum(counts) + 1) :
         args = [op |-> "locate", counts |-> counts, datasets |-> Collection(counts),
                 flatIndex |-> flatIndex]

Locate ==
    /\ pc = "idle"
    /\ args.op = "locate"
    /\ result' = locate(args.datasets, args.flatIndex)
    /\ pc' = "returned"
    /\ UNCHANGED << dataset, STATIC_TILED_CLIENT, args, tiled_client, selected_sub_uris,
                    tmp_sub_uris, tiled_uris, block_data, tasks, cursor, hist,
                    dataset_dict, uri_index >>

SpecLocate == InitLocate /\ [][Locate]_vars

\* C14: for local counts c and a flat index f in [0, sum(c)), locate gives
\* the position i of the dataset with sum(c[..i-1]) <= f < sum(c[..i]) (the
\* first whose cumulative count exceeds f) and the local index
\* f - sum(c[..i-1]); for f < 0 or f >= sum(c) it fails with
\* IndexOutOfRange.
C14_LocateByPrefixSums ==
    (pc = "returned" /\ args.op = "locate") =>
        LET c == args.counts
            f == args.flatIndex
        IN  IF f < 0 \/ f >= Sum(c)
            THEN result = Raise("IndexOutOfRange")
            ELSE /\ result.kind = "located"
                 /\ LET i == result.datasetPosition + 1
                        before == Sum(SubSeq(c, 1, i - 1))
                    IN  /\ i \in 1..Len(c)
                        /\ before <= f
                        /\ f < before + c[i]
                        /\ result.localIndex = f - before
                        /\ \A h \in 1..(i - 1) : Sum(SubSeq(c, 1, h)) <= f

\* the second image of the third dataset, found past an empty second one
C14_Witness ==
    /\ pc = "returned"
    /\ args.op = "locate"
    /\ args.counts = << 1, 0, 2 >>
    /\ args.flatIndex = 2
    /\ result = [kind |-> "located", datasetPosition |-> 2, localIndex |-> 1]

(***************************************************************************)
(* URI derivation in read_data.                                            *)
(***************************************************************************)
\* the call has derived its URIs and gone on
UrisDerived == IsRead /\ pc \in { "fetch", "transform", "returned" }

\* C15: once read_data has derived its URIs, a node of more than 2
\* dimensions whose leading dimension exceeds 1 has one URI per requested
\* index, the k-th being the node's address followed by ?slice= and the
\* decimal digits of the k-th index; any other node has the node's address
\* as its single URI; and these are the URIs the call returns.
C15_UriDerivation ==
    UrisDerived =>
        /\ IF Len(NodeShape) > 2 /\ NodeShape[1] > 1
           THEN /\ Len(tiled_uris) = Len(args.indexes)
                /\ \A k \in 1..Len(args.indexes) :
                     tiled_uris[k] =
                         NodeUri(dataset.uri) \o << "?", "s", "l", "i", "c", "e", "=" >>
                             \o NatToStr(args.indexes[k])
           ELSE tiled_uris = << NodeUri(dataset.uri) >>
        /\ pc = "returned" => result.uris = tiled_uris

\* two indexes were asked of a 3-D node with a leading dimension of 1 and
\* the node's bare address came back alone
C15_Witness ==
    /\ pc = "returned"
    /\ IsRead
    /\ Len(NodeShape) = 3
    /\ NodeShape[1] = 1
    /\ Len(args.indexes) = 2
    /\ result.uris = << NodeUri(dataset.uri) >>

(***************************************************************************)
(* The mode browse_data runs in.                                           *)
(***************************************************************************)
\* the call is inside lines 258-274
InExplicitMode == IsBrowse /\ pc \in { "expand", "sizes" }

\* the call is inside lines 276-290
InDiscoveryMode == IsBrowse /\ pc \in { "list_nodes", "probes" }

\* C16: browse_data is in explicit-selection mode only for a selection that
\* is not empty and not the default, and in discovery mode for any other
\* selection, the empty list included; a call with an empty selection that
\* returns has enumerated the root.
C16_ModeBySelection ==
    LET explicit == args.selected_sub_uris # << >>
                        /\ args.selected_sub_uris # DefaultSelected
    IN  /\ InExplicitMode => explicit
        /\ InDiscoveryMode => ~explicit
        /\ (IsBrowse /\ pc = "returned" /\ args.selected_sub_uris = << >>) =>
               hist.lookups > 0

\* browse_data, called with an empty selection, returned two empty lists
\* from the explicit-selection branch without a lookup in the store
C16_EmptySelectionExplicit ==
    /\ pc = "returned"
    /\ IsBrowse
    /\ args.selected_sub_uris = << >>
    /\ result = [kind |-> "return", uris |-> << >>, counts |-> << >>]
    /\ hist.lookups = 0

\* what the code does: the explicit-selection branch runs for every
\* selection other than the default, discovery for the default alone
C16_ModeByDefault ==
    /\ InExplicitMode => args.selected_sub_uris # DefaultSelected
    /\ InDiscoveryMode => args.selected_sub_uris = DefaultSelected

(***************************************************************************)
(* Expansion of an explicit selection.                                     *)
(***************************************************************************)
\* what one selected sub-path stands for, read off the store: itself when
\* it names an array, its immediate children under its own path otherwise
ExpandedOne(sub_uri) ==
    LET node == Resolve(sub_uri)
    IN  IF node.kind = "ArrayClient" THEN << sub_uri >>
        ELSE [i \in 1..Len(node.children) |-> sub_uri \o << "/" >> \o node.children[i]]

RECURSIVE Expanded(_)
Expanded(sub_uris) ==
    IF sub_uris = << >> THEN << >>
    ELSE ExpandedOne(Head(sub_uris)) \o Expanded(Tail(sub_uris))

\* C17: in explicit-selection browse_data the list built so far is the
\* expansion of the selected sub-paths already visited, each array as itself
\* and each branch as its immediate children in the branch's order; the
\* nodes that are sized are the expansion of the whole selection, one level
\* deep, and they are the URI list the call returns.
C17_ExpansionOneLevel ==
    IsExplicitBrowse =>
        /\ pc = "expand" =>
             tmp_sub_uris = Expanded(SubSeq(args.selected_sub_uris, 1, cursor - 1))
        /\ pc \in { "sizes", "returned" } =>
             selected_sub_uris = Expanded(args.selected_sub_uris)
        /\ pc = "returned" => result.uris = Expanded(args.selected_sub_uris)

\* a branch of two arrays selected before an array: the call returned the
\* branch's children in the branch's order, then the array
C17_Witness ==
    /\ pc = "returned"
    /\ IsExplicitBrowse
    /\ args.selected_sub_uris = << << "A" >>, << "C", "/", "e" >> >>
    /\ result.uris = << << "A", "/", "d" >>, << "A", "/", "e" >>, << "C", "/", "e" >> >>

\* a branch whose child is itself a branch went to sizing as that child
\* alone, not expanded again
C17_WitnessOneLevel ==
    /\ pc = "sizes"
    /\ IsExplicitBrowse
    /\ args.selected_sub_uris = << << "B" >> >>
    /\ selected_sub_uris = << << "B", "/", "s" >> >>
    /\ Resolve(<< "B", "/", "s" >>).kind = "Container"

(***************************************************************************)
(* Lookups of the dataset's node in one read_data call.                    *)
(***************************************************************************)
\* C18: a read_data call never looks its node up more than once, and a call
\* that returns has looked it up exactly once, with or without a fetch of
\* image data.
C18_NodeResolvedOnce ==
    IsRead =>
        /\ hist.lookups <= 1
        /\ pc = "returned" => hist.lookups = 1

\* a call that returned images looked the node up twice and read the array
\* once
C18_ResolvedTwice ==
    /\ pc = "returned"
    /\ ReturnsImages
    /\ hist.lookups = 2
    /\ hist.array_reads = 1

\* what the code does: one lookup for the URIs, and one more before the
\* array is read
C18_LookupsByFetch ==
    (IsRead /\ pc = "returned") =>
        hist.lookups = IF args.flags.just_uri THEN 1 ELSE 2

(***************************************************************************)
(* The grayscale squeeze of read_data.                                     *)
(***************************************************************************)
\* the block lines 115-130 read for the running call, read off the store
BlockRead == SliceBlock(dataset.uri, NodeShape, args.indexes, args.flags.downsample)

\* C19: in a read_data call that hands images to the transform, the block
\* is the block read with its second axis removed when the node is 4-D with
\* a channel dimension of 1, and the block read, untouched, for every other
\* 2-D, 3-D or 4-D node; so every image is 2-D, or 3-D with its channels.
C19_SqueezeOnlyChannel ==
    (ReturnsImages /\ pc \in { "transform", "returned" } /\ Len(NodeShape) \in { 2, 3, 4 }) =>
        /\ block_data = IF Len(NodeShape) = 4 /\ NodeShape[2] = 1
                        THEN SqueezeAxis1(BlockRead)
                        ELSE BlockRead
        /\ Len(block_data.shape) - 1 \in { 2, 3 }

\* images were returned for a 3-D node whose images are one row high: the
\* height axis was removed and each image handed on was 1-D
C19_HeightSqueezed ==
    /\ pc = "returned"
    /\ ReturnsImages
    /\ Len(NodeShape) = 3
    /\ NodeShape[2] = 1
    /\ ~args.flags.downsample
    /\ Len(args.indexes) = 2
    /\ BlockRead.shape = << 2, 1, NodeShape[3] >>
    /\ block_data.shape = << 2, NodeShape[3] >>
    /\ \A k \in 1..Len(tasks) : Len(tasks[k].arg.shape) = 1

(***************************************************************************)
(* The order of the URIs discovery returns.                                *)
(***************************************************************************)
\* the probes whose URI survives, by submission index
Survivors == { i \in 1..Len(tasks) : tasks[i].state # "pending" /\ tasks[i].out # None }

\* the returned list has each surviving candidate once and nothing else
IsPermutationOfSurvivors(uris) ==
    /\ Len(uris) = Cardinality(Survivors)
    /\ \A a, b \in 1..Len(uris) : a # b => uris[a] # uris[b]
    /\ { uris[k] : k \in 1..Len(uris) } = { tasks[i].out.s : i \in Survivors }

\* the probe whose URI stands at position k of the list
ProbeOf(uris, k) == CHOOSE i \in Survivors : tasks[i].out.s = uris[k]

\* C20 as stated: when discovery returns, every probe has completed, the
\* list is a duplicate-free permutation of the surviving candidates, and
\* the URIs stand in the order in which their probes completed.
C20_CompletionOrder ==
    (IsDiscovery /\ pc = "returned") =>
        /\ \A i \in 1..Len(tasks) : tasks[i].state # "pending"
        /\ IsPermutationOfSurvivors(result.uris)
        /\ \A a, b \in 1..Len(result.uris) :
               a < b => tasks[ProbeOf(result.uris, a)].seq < tasks[ProbeOf(result.uris, b)].seq

\* C20, amended: the list changes only by the calling thread appending the
\* URI of a completed probe that as_completed has just handed over, never
\* by a probe itself; when discovery returns every probe has completed and
\* been handed over, and the list is a duplicate-free permutation of the
\* surviving candidates, in the order of the handing over.
C20_YieldOrder ==
    /\ [][(IsDiscovery /\ pc = "probes" /\ tiled_uris' # tiled_uris) =>
             \E i \in 1..Len(tasks) :
                 /\ tasks[i].state = "done"
                 /\ tasks'[i].state = "yielded"
                 /\ \A j \in 1..Len(tasks) : j # i => tasks'[j] = tasks[j]
                 /\ tiled_uris' = Append(tiled_uris, tasks[i].out.s)]_vars
    /\ []((IsDiscovery /\ pc = "returned") =>
             /\ \A i \in 1..Len(tasks) : tasks[i].state = "yielded"
             /\ IsPermutationOfSurvivors(result.uris)
             /\ result.uris = tiled_uris)

\* discovery returned two URIs, the first of them from the probe that
\* completed later
C20_Witness ==
    /\ pc = "returned"
    /\ IsDiscovery
    /\ Len(result.uris) = 2
    /\ tasks[ProbeOf(result.uris, 1)].seq > tasks[ProbeOf(result.uris, 2)].seq

(***************************************************************************)
(* How many images and URIs read_data returns.                             *)
(***************************************************************************)
\* the call returned images for a node of 2, 3 or 4 dimensions
ReturnedImagesOfSupportedRank ==
    /\ ReturnsImages
    /\ pc = "returned"
    /\ Len(NodeShape) \in { 2, 3, 4 }

\* C21 as stated: a read_data call that returns images for a 2-D, 3-D or
\* 4-D node returns as many images, and as many URIs, as indexes were
\* requested.
C21_LengthsEqualIndexes ==
    ReturnedImagesOfSupportedRank =>
        /\ Len(result.data) = Len(args.indexes)
        /\ Len(result.uris) = Len(args.indexes)

\* C21, amended: for a 3-D or 4-D node whose leading dimension exceeds 1
\* the images and the URIs both number the requested indexes; any other
\* 2-D, 3-D or 4-D node has exactly one URI, with one image per requested
\* index for a stack of leading dimension 1 and one image at most (none for
\* no index) for a 2-D node.
C21_LengthsByShape ==
    ReturnedImagesOfSupportedRank =>
        IF IsMultiSlice
        THEN /\ Len(result.data) = Len(args.indexes)
             /\ Len(result.uris) = Len(args.indexes)
        ELSE /\ Len(result.uris) = 1
             /\ Len(result.data) =
                    IF Len(NodeShape) = 2
                    THEN (IF Len(args.indexes) = 0 THEN 0 ELSE 1)
                    ELSE Len(args.indexes)

\* the only image of a stack of leading dimension 1 was asked for twice:
\* two images came back with the one bare URI
C21_Witness ==
    /\ ReturnedImagesOfSupportedRank
    /\ Len(NodeShape) = 3
    /\ NodeShape[1] = 1
    /\ args.indexes = << 0, 0 >>
    /\ Len(result.data) = 2
    /\ Len(result.uris) = 1

\* two indexes were asked of a 2-D node: one image and one URI came back
C21_WitnessSingleImage ==
    /\ ReturnedImagesOfSupportedRank
    /\ Len(NodeShape) = 2
    /\ Len(args.indexes) = 2
    /\ Len(result.data) = 1
    /\ Len(result.uris) = 1

====
